---- MODULE Spec2Model ----
(***************************************************************************)
(* A model of the dictation pipeline of whisper-obsidian-plugin:           *)
(*   - the transcription service (src/whisper_api_server.py): the          *)
(*     single-slot model cache and the /transcribe request handler;        *)
(*   - the desktop client (src/whisper_api_client.py): the recording       *)
(*     toggle, the capture callback and the stop sequence.                 *)
(* The service runs its handlers on one event loop: a handler is atomic    *)
(* up to its only await (file.read(), line 111).  The client runs the      *)
(* capture callback and the hotkey handler on two threads with no lock.    *)
(***************************************************************************)
EXTENDS Integers, Sequences, FiniteSets, TLC

\* ------------------------------------------------------------------ bounds
MaxReq == 2        \* number of /transcribe requests of a run
MaxLen == 3        \* longest raw transcript explored by the text check
MaxFrames == 3     \* number of frames the capture device delivers in a run
MaxSessions == 2   \* number of recordings started in a run

\* ------------------------------------------------------------ service data
Requests == 1..MaxReq

\* model names a request may ask for ("turbo" is the default, line 34 / 74)
ModelNames == {"turbo", "base"}

DefaultModel == "turbo"

\* Python None, for current_model_name
NoneName == "None"

\* Python None, for whisper_model
NoHandle == [loadedFor |-> "None"]

\* the object whisper.load_model(name) returns
Handle(name) == [loadedFor |-> name]

\* Declared content types, as token sequences; <<>> is None or "" (both
\* falsy in "not file.content_type").
ContentTypes == { <<>>, <<"text", "/", "plain">>, <<"audio">>, <<"audio", "/", "wav">> }

\* file.content_type.startswith("audio/")
StartsWithAudio(ct) == Len(ct) >= 2 /\ ct[1] = "audio" /\ ct[2] = "/"

\* line 93, negated: the upload passes the type validation
ValidContentType(ct) == ct # <<>> /\ StartsWithAudio(ct)

\* ---------------------------------------------------- text post-processing
Whitespace == {" ", "\n"}

Alphabet == {" ", "\n", "a", "B", "ß"}

\* str.upper() of one character; "ß".upper() is "SS"
UpperChar(c) ==
    CASE c = "a" -> <<"A">>
      [] c = "ß" -> <<"S", "S">>
      [] OTHER   -> <<c>>

\* str.lower() of one character
LowerChar(c) ==
    CASE c = "B" -> <<"b">>
      [] OTHER   -> <<c>>

RECURSIVE LStrip(_)
LStrip(s) == IF s # <<>> /\ Head(s) \in Whitespace THEN LStrip(Tail(s)) ELSE s

RECURSIVE RStrip(_)
RStrip(s) ==
    IF s # <<>> /\ s[Len(s)] \in Whitespace THEN RStrip(SubSeq(s, 1, Len(s) - 1)) ELSE s

\* str.strip()
Strip(s) == RStrip(LStrip(s))

RECURSIVE LowerAll(_)
LowerAll(s) == IF s = <<>> THEN <<>> ELSE LowerChar(Head(s)) \o LowerAll(Tail(s))

\* a plausible slip: str.capitalize(), which also lower-cases the rest
NormalizeCapitalize(raw) ==
    LET t == Strip(raw)
    IN  IF t # <<>> THEN UpperChar(t[1]) \o LowerAll(Tail(t)) ELSE t

\* lines 135-137: strip, then upper-case the first character if there is one
Normalize(raw) ==
    LET t == Strip(raw)
    IN  IF t # <<>> THEN UpperChar(t[1]) \o Tail(t) ELSE t

VARIABLES
    spc,                 \* service process: "boot" before startup_event, then "up"
    whisper_model,       \* global whisper_model (line 30)
    current_model_name,  \* global current_model_name (line 31)
    reqs,                \* per request: position, inputs and response
    tempFiles,           \* requests whose temporary file exists on disk
    tempCreated,         \* requests that ever created a temporary file
    loadCalls,           \* number of whisper.load_model calls by requests
    lastRes,             \* the latest model resolution made by a request
    raw,                 \* text check: a raw backend transcript
    cooked,              \* text check: <<TRUE, text>> once post-processed
    is_recording,        \* client global is_recording (line 19)
    recording_data,      \* client global recording_data (line 20): the frames
    listId,              \* identity of the list object recording_data names
    tpc,                 \* position of the hotkey thread in toggle_recording
    cb,                  \* the capture callback: position, frame, list it holds
    audio,               \* save_and_transcribe: the concatenated frames
    temp_path,           \* whether the client's temporary WAV file exists
    sent,                \* the payload of every HTTP request sent, in order
    clipboard,           \* the system clipboard: "prior" contents or "text"
    pasted,              \* number of times text reached the foreground app
    lastStop,            \* how the latest stop sequence ended
    session,             \* number of recordings started so far
    delivered,           \* number of frames delivered by the device so far
    call,                \* handler check: cache state, inputs and outcomes of one request
    outcome              \* handler check: what each endpoint makes of that request

serverVars == <<spc, whisper_model, current_model_name, reqs, tempFiles,
                tempCreated, loadCalls, lastRes>>

textVars == <<raw, cooked>>

clientVars == <<is_recording, recording_data, listId, tpc, cb, audio, temp_path,
                sent, clipboard, pasted, lastStop, session, delivered>>

handlerVars == <<call, outcome>>

vars == <<serverVars, textVars, clientVars, handlerVars>>

\* ------------------------------------------------------------- model cache

\* a load that records the name before whisper.load_model, so that a failed
\* load leaves the new name beside the old handle
LoadNameFirst(wm, cmn, name, ok) ==
    IF ok THEN [wm |-> Handle(name), cmn |-> name, ret |-> TRUE]
          ELSE [wm |-> wm, cmn |-> name, ret |-> FALSE]

\* a load that stores the handle and forgets to record its name
LoadKeepsOldName(wm, cmn, name, ok) ==
    IF ok THEN [wm |-> Handle(name), cmn |-> cmn, ret |-> TRUE]
          ELSE [wm |-> wm, cmn |-> cmn, ret |-> FALSE]

\* a load that drops the cache entry before it tries, and fails
LoadClearsOnFailure(wm, cmn, name, ok) ==
    IF ok THEN [wm |-> Handle(name), cmn |-> name, ret |-> TRUE]
          ELSE [wm |-> NoHandle, cmn |-> NoneName, ret |-> FALSE]

\* load_whisper_model (lines 34-45): on success both globals are assigned,
\* on an exception of whisper.load_model neither is, and False is returned.
LoadWhisperModel(wm, cmn, name, ok) ==
    IF ok THEN [wm |-> Handle(name), cmn |-> name, ret |-> TRUE]
          ELSE [wm |-> wm, cmn |-> cmn, ret |-> FALSE]

\* GET / (lines 54-61): model_loaded and current_model of the response
Root(wm, cmn) ==
    [model_loaded |-> wm # NoHandle,
     current_model |-> IF cmn = NoneName THEN "none" ELSE cmn]

\* a cache test that always reloads
NeedsLoadAlways(wm, cmn, m) == TRUE

\* line 98
NeedsLoad(wm, cmn, m) == wm = NoHandle \/ cmn # m

\* lines 151-153: the outer handler turns every exception raised in the
\* body, the HTTPException of lines 94 and 101 included (HTTPException is a
\* subclass of Exception), into HTTPException(500).
OuterExcept(raised) == 500

\* a validation that comes after the model resolution
EntryResolveFirst(wm, cmn, ct, m, ok) ==
    LET l == IF NeedsLoad(wm, cmn, m) THEN LoadWhisperModel(wm, cmn, m, ok)
                                      ELSE [wm |-> wm, cmn |-> cmn, ret |-> TRUE]
        n == IF NeedsLoad(wm, cmn, m) THEN 1 ELSE 0
    IN  IF ~l.ret THEN
            [raised |-> 500, exit |-> "load", wm |-> l.wm, cmn |-> l.cmn,
             loads |-> n, temp |-> FALSE]
        ELSE IF ~ValidContentType(ct) THEN
            [raised |-> 400, exit |-> "validation", wm |-> l.wm, cmn |-> l.cmn,
             loads |-> n, temp |-> FALSE]
        ELSE
            [raised |-> 0, exit |-> "none", wm |-> l.wm, cmn |-> l.cmn,
             loads |-> n, temp |-> TRUE]

\* transcribe_audio from its entry to the await of line 111 (lines 91-110):
\* validation, model resolution, creation of the temporary file.
\* raised = 0: no exception so far.
TranscribeEntry(wm, cmn, ct, m, ok) ==
    IF ~ValidContentType(ct) THEN
        [raised |-> 400, exit |-> "validation", wm |-> wm, cmn |-> cmn,
         loads |-> 0, temp |-> FALSE]
    ELSE IF NeedsLoad(wm, cmn, m) THEN
        LET l == LoadWhisperModel(wm, cmn, m, ok)
        IN  IF ~l.ret THEN
                [raised |-> 500, exit |-> "load", wm |-> l.wm, cmn |-> l.cmn,
                 loads |-> 1, temp |-> FALSE]
            ELSE
                [raised |-> 0, exit |-> "none", wm |-> l.wm, cmn |-> l.cmn,
                 loads |-> 1, temp |-> TRUE]
    ELSE
        [raised |-> 0, exit |-> "none", wm |-> wm, cmn |-> cmn,
         loads |-> 0, temp |-> TRUE]

\* outcomes of reading the upload and writing it to the temporary file
IoOutcomes == {"ok", "read_fail", "write_fail"}

\* outcomes of whisper_model.transcribe: a result with a "text" entry, an
\* exception, or a result without a "text" entry
BackendOutcomes == {"ok", "fail", "notext"}

\* raw transcripts the backend returns in the service runs
RawSamples == { <<>>, <<" ", "a", "B">> }

\* transcribe_audio from the await of line 111 to its exit (lines 111-153).
\* unlink: whether the temporary file is removed (line 130 or line 148).
TranscribeRest(wm, io, be, rawText) ==
    IF io # "ok" THEN
        \* the with-block of lines 108-113 is left by the exception; the file
        \* was made with delete=False and no handler removes it
        [status |-> OuterExcept(1), exit |-> io, text |-> <<>>,
         unlink |-> FALSE, used |-> NoHandle]
    ELSE IF be = "fail" THEN
        [status |-> OuterExcept(1), exit |-> "backend", text |-> <<>>,
         unlink |-> TRUE, used |-> wm]
    ELSE IF be = "notext" THEN
        [status |-> OuterExcept(1), exit |-> "postprocess", text |-> <<>>,
         unlink |-> TRUE, used |-> wm]
    ELSE
        [status |-> 200, exit |-> "success", text |-> Normalize(rawText),
         unlink |-> TRUE, used |-> wm]

NewRequest ==
    [pc |-> "new", ctype |-> <<>>, model |-> NoneName, status |-> 0,
     exit |-> "none", text |-> <<>>, loads |-> 0,
     resolved |-> NoHandle, used |-> NoHandle]

\* ------------------------------------------------- the handler as a whole

\* language form values; "" is an empty or missing value (falsy at line 121)
Languages == {"", "en", "ru", "auto"}

\* prompt form values; "" is the default (line 76)
Prompts == {"", "Names: Anna"}

\* result.get("language"): the language the backend reports, or no entry
DetectedLanguages == {"absent", "en"}

\* result.get("segments", [])
SampleSegments == <<"segment">>

\* options that pass the language whenever one is given
TranscribeOptionsPassAuto(language, prompt) ==
    (IF language # "" THEN {<<"language", language>>} ELSE {})
        \cup (IF prompt # "" THEN {<<"initial_prompt", prompt>>} ELSE {})

\* lines 119-124: the keyword options of whisper_model.transcribe
TranscribeOptions(language, prompt) ==
    (IF language # "" /\ language # "auto" THEN {<<"language", language>>} ELSE {})
        \cup (IF prompt # "" THEN {<<"initial_prompt", prompt>>} ELSE {})

\* line 141: result.get("language", language)
ResponseLanguage(det, language) == IF det = "absent" THEN language ELSE det

\* transcribe_audio run from entry to exit with no other request in between
\* (lines 71-153), on the inputs and outcomes of c.  exc: the exception that
\* leaves it, called: whether the backend was invoked, tempLeft: whether the
\* temporary file is still on disk at the end.
HandleTranscribe(c) ==
    LET e == TranscribeEntry(c.wm, c.cmn, c.ct, c.m, c.ok)
    IN  IF e.raised # 0 THEN
            [status |-> OuterExcept(e.raised), exc |-> "http",
             body |-> [detail |-> e.exit],
             wm |-> e.wm, cmn |-> e.cmn, loads |-> e.loads,
             tempMade |-> FALSE, tempLeft |-> FALSE, called |-> FALSE, opts |-> {}]
        ELSE
            LET f == TranscribeRest(e.wm, c.io, c.be, c.rawText)
            IN  [status |-> f.status,
                 exc |-> IF f.status = 200 THEN "none" ELSE "http",
                 body |-> IF f.status = 200
                          THEN [text |-> f.text,
                                language |-> ResponseLanguage(c.det, c.language),
                                segments |-> SampleSegments]
                          ELSE [detail |-> f.exit],
                 wm |-> e.wm, cmn |-> e.cmn, loads |-> e.loads,
                 tempMade |-> TRUE, tempLeft |-> ~f.unlink,
                 called |-> c.io = "ok",
                 opts |-> IF c.io = "ok" THEN TranscribeOptions(c.language, c.prompt)
                          ELSE {}]

\* an adapter that hands the whole result on
OpenAICompatibleWholeResult(t) == t

\* openai_compatible_endpoint (lines 168-179) applied to what
\* transcribe_audio did: a result is narrowed to text and language, an
\* HTTPException is raised again, any other exception becomes a 500
OpenAICompatible(t) ==
    IF t.exc = "none" THEN
        [t EXCEPT !.body = [text |-> t.body.text, language |-> t.body.language]]
    ELSE IF t.exc = "http" THEN t
    ELSE [t EXCEPT !.status = 500]

\* cache states the service can be in (both globals None, or a model held
\* under its name)
CacheStates ==
    { [wm |-> NoHandle, cmn |-> NoneName] }
        \cup { [wm |-> Handle(m), cmn |-> m] : m \in ModelNames }

\* one request: the cache it meets, its form values, and what loading,
\* reading and the backend do
Calls ==
    { [wm |-> cs.wm, cmn |-> cs.cmn, ct |-> ct, m |-> m, language |-> l,
       prompt |-> p, ok |-> ok, io |-> io, be |-> be, rawText |-> rt, det |-> d] :
        cs \in CacheStates, ct \in {<<"text", "/", "plain">>, <<"audio", "/", "wav">>},
        m \in ModelNames, l \in Languages, p \in Prompts, ok \in BOOLEAN,
        io \in IoOutcomes, be \in BackendOutcomes, rt \in RawSamples,
        d \in DetectedLanguages }

NoCall ==
    [wm |-> NoHandle, cmn |-> NoneName, ct |-> <<>>, m |-> DefaultModel,
     language |-> "en", prompt |-> "", ok |-> TRUE, io |-> "ok", be |-> "ok",
     rawText |-> <<>>, det |-> "absent"]

NoOutcome == [done |-> FALSE]

HandlerStart == call = NoCall /\ outcome = NoOutcome

\* ---------------------------------------------------------- initial values
ServerStart ==
    /\ spc = "boot"
    /\ whisper_model = NoHandle
    /\ current_model_name = NoneName
    /\ reqs = [r \in Requests |-> NewRequest]
    /\ tempFiles = {}
    /\ tempCreated = {}
    /\ loadCalls = 0
    /\ lastRes = [name |-> NoneName, ok |-> FALSE, loads |-> 0]

TextStart == raw = <<>> /\ cooked = <<FALSE, <<>>>>

\* the callback is not running
CbWait ==
    [pc |-> "wait", frame |-> [n |-> 0, sess |-> 0, rec |-> FALSE, app |-> FALSE],
     ref |-> 0]

\* lines 19-20: is_recording = False, recording_data = []
ClientStart ==
    /\ is_recording = FALSE
    /\ recording_data = <<>>
    /\ listId = 0
    /\ tpc = "idle"
    /\ cb = CbWait
    /\ audio = <<>>
    /\ temp_path = "none"
    /\ sent = <<>>
    /\ clipboard = "prior"
    /\ pasted = 0
    /\ lastStop = "none"
    /\ session = 0
    /\ delivered = 0

\* ---------------------------------------------------------------- service

\* startup_event (lines 48-51): load the default model; a failure is logged
Startup(ok) ==
    /\ spc = "boot"
    /\ LET l == LoadWhisperModel(whisper_model, current_model_name, DefaultModel, ok)
       IN  /\ whisper_model' = l.wm
           /\ current_model_name' = l.cmn
    /\ spc' = "up"
    /\ UNCHANGED <<reqs, tempFiles, tempCreated, loadCalls, lastRes>>
    /\ UNCHANGED <<textVars, clientVars, handlerVars>>

\* POST /transcribe, up to the await of line 111 or to an earlier exit
Begin(r, ct, m, ok) ==
    /\ spc = "up"
    /\ reqs[r].pc = "new"
    /\ LET e == TranscribeEntry(whisper_model, current_model_name, ct, m, ok)
       IN  /\ whisper_model' = e.wm
           /\ current_model_name' = e.cmn
           /\ loadCalls' = loadCalls + e.loads
           /\ lastRes' = IF e.exit = "validation" THEN lastRes
                         ELSE [name |-> m, ok |-> e.raised = 0, loads |-> e.loads]
           /\ tempFiles' = IF e.temp THEN tempFiles \cup {r} ELSE tempFiles
           /\ tempCreated' = IF e.temp THEN tempCreated \cup {r} ELSE tempCreated
           /\ reqs' = [reqs EXCEPT ![r] =
                 [pc |-> IF e.raised = 0 THEN "reading" ELSE "done",
                  ctype |-> ct, model |-> m,
                  status |-> IF e.raised = 0 THEN 0 ELSE OuterExcept(e.raised),
                  exit |-> e.exit, text |-> <<>>, loads |-> e.loads,
                  resolved |-> IF e.raised = 0 THEN e.wm ELSE NoHandle,
                  used |-> NoHandle]]
    /\ UNCHANGED spc
    /\ UNCHANGED <<textVars, clientVars, handlerVars>>

\* POST /transcribe, from the await of line 111 to the response
Finish(r, io, be, rawText) ==
    /\ reqs[r].pc = "reading"
    /\ LET f == TranscribeRest(whisper_model, io, be, rawText)
       IN  /\ tempFiles' = IF f.unlink THEN tempFiles \ {r} ELSE tempFiles
           /\ reqs' = [reqs EXCEPT ![r] =
                 [@ EXCEPT !.pc = "done", !.status = f.status, !.exit = f.exit,
                           !.text = f.text, !.used = f.used]]
    /\ UNCHANGED <<spc, whisper_model, current_model_name, tempCreated,
                   loadCalls, lastRes>>
    /\ UNCHANGED <<textVars, clientVars, handlerVars>>

Init == ServerStart /\ TextStart /\ ClientStart /\ HandlerStart

Next ==
    \/ \E ok \in BOOLEAN : Startup(ok)
    \/ \E r \in Requests, ct \in ContentTypes, m \in ModelNames, ok \in BOOLEAN :
          Begin(r, ct, m, ok)
    \/ \E r \in Requests, io \in IoOutcomes, be \in BackendOutcomes,
          rawText \in RawSamples : Finish(r, io, be, rawText)

\* the service: startup, then MaxReq interleaved /transcribe requests
Spec == Init /\ [][Next]_vars

\* ------------------------------------------------------------- text check
RECURSIVE StringsUpTo(_)
StringsUpTo(n) ==
    IF n = 0 THEN { <<>> }
    ELSE LET shorter == StringsUpTo(n - 1)
         IN  shorter \cup { Append(s, c) : s \in shorter, c \in Alphabet }

InitText ==
    /\ raw \in StringsUpTo(MaxLen)
    /\ cooked = <<FALSE, <<>>>>
    /\ ServerStart
    /\ ClientStart
    /\ HandlerStart

\* lines 135-140 applied to the backend's result["text"]
Postprocess ==
    /\ ~cooked[1]
    /\ cooked' = <<TRUE, Normalize(raw)>>
    /\ UNCHANGED <<raw, serverVars, clientVars, handlerVars>>

NextText == Postprocess

\* the text post-processing on every raw transcript up to MaxLen characters
SpecText == InitText /\ [][NextText]_vars

\* ---------------------------------------------------------- handler check
InitHandler ==
    /\ call \in Calls
    /\ outcome = NoOutcome
    /\ ServerStart
    /\ TextStart
    /\ ClientStart

\* the request of call goes through POST /transcribe (t) and, from the same
\* cache state, through POST /v1/audio/transcriptions (o)
RunBothEndpoints ==
    /\ ~outcome.done
    /\ outcome' = [done |-> TRUE,
                   t |-> HandleTranscribe(call),
                   o |-> OpenAICompatible(HandleTranscribe(call))]
    /\ UNCHANGED <<call, serverVars, textVars, clientVars>>

NextHandler == RunBothEndpoints

\* one request handled from entry to exit by both endpoints, for every
\* cache state, form value and outcome of the load, the upload and the backend
SpecHandler == InitHandler /\ [][NextHandler]_vars

\* ----------------------------------------------------------------- client

\* the ways a stop sequence can fail after the buffer was found non-empty
ClientFailures ==
    {"encode_fail", "network", "status", "json", "notext", "paste_fail", "key_fail"}

\* outcomes of requests.post, raise_for_status and resp.json()["text"]
\* (lines 64-67): connection error, non-2xx, body not JSON, no "text" key,
\* or a text
PostOutcomes == {"network", "status", "json", "notext", "ok"}

\* outcomes of lines 72-77: all steps succeed, pyperclip.paste() raises
\* (before the copy), keyboard.press_and_release raises (after the copy)
InjectOutcomes == {"ok", "paste_fail", "key_fail"}

\* line 16: samplerate = 16000
samplerate == 16000

\* a client that goes on with any response that is not a connection error
ResponseHasTextUnchecked(resp) == resp \in {"ok", "status"}

\* lines 66-67: raise_for_status() and resp.json()["text"] both pass
ResponseHasText(resp) == resp = "ok"

\* a stop that uploads whatever the buffer holds
StopIsNoopNever(buf) == FALSE

\* save_and_transcribe, line 44: "if not recording_data: return"
StopIsNoop(buf) == buf = <<>>

\* a stop that leaves the flag for the end of the stop sequence
FlagOnStopEntryKept(rec) == rec

\* toggle_recording, line 38: is_recording = False, before the stop sequence
FlagOnStopEntry(rec) == FALSE

\* the device invokes callback(indata, ...) with a new frame
CbDeliver ==
    /\ cb.pc = "wait"
    /\ delivered < MaxFrames
    /\ delivered' = delivered + 1
    /\ cb' = [pc |-> "check",
              frame |-> [n |-> delivered + 1, sess |-> session, rec |-> is_recording,
                         app |-> FALSE],
              ref |-> 0]
    /\ UNCHANGED <<is_recording, recording_data, listId, tpc, audio, temp_path,
                   sent, clipboard, pasted, lastStop, session>>
    /\ UNCHANGED <<serverVars, textVars, handlerVars>>

\* callback, line 26: read is_recording
CbCheck ==
    /\ cb.pc = "check"
    /\ cb' = IF is_recording THEN [cb EXCEPT !.pc = "load"] ELSE CbWait
    /\ UNCHANGED <<is_recording, recording_data, listId, tpc, audio, temp_path,
                   sent, clipboard, pasted, lastStop, session, delivered>>
    /\ UNCHANGED <<serverVars, textVars, handlerVars>>

\* callback, line 27: read the global recording_data (the list object)
CbLoad ==
    /\ cb.pc = "load"
    /\ cb' = [cb EXCEPT !.pc = "append", !.ref = listId]
    /\ UNCHANGED <<is_recording, recording_data, listId, tpc, audio, temp_path,
                   sent, clipboard, pasted, lastStop, session, delivered>>
    /\ UNCHANGED <<serverVars, textVars, handlerVars>>

\* callback, line 27: append the copy to the list object read before; a list
\* that recording_data no longer names is garbage and the frame is lost.
\* app notes whether is_recording was set when the frame was appended.
CbAppend ==
    /\ cb.pc = "append"
    /\ recording_data' =
          IF cb.ref = listId
          THEN Append(recording_data, [cb.frame EXCEPT !.app = is_recording])
          ELSE recording_data
    /\ cb' = CbWait
    /\ UNCHANGED <<is_recording, listId, tpc, audio, temp_path,
                   sent, clipboard, pasted, lastStop, session, delivered>>
    /\ UNCHANGED <<serverVars, textVars, handlerVars>>

\* toggle_recording, lines 32-34: not recording, so recording_data = []
ToggleStartClear ==
    /\ tpc = "idle"
    /\ ~is_recording
    /\ session < MaxSessions
    /\ recording_data' = <<>>
    /\ listId' = listId + 1
    /\ session' = session + 1
    /\ tpc' = "start_flag"
    /\ UNCHANGED <<is_recording, cb, audio, temp_path, sent, clipboard, pasted,
                   lastStop, delivered>>
    /\ UNCHANGED <<serverVars, textVars, handlerVars>>

\* toggle_recording, line 35: is_recording = True
ToggleStartFlag ==
    /\ tpc = "start_flag"
    /\ is_recording' = TRUE
    /\ tpc' = "idle"
    /\ UNCHANGED <<recording_data, listId, cb, audio, temp_path, sent, clipboard,
                   pasted, lastStop, session, delivered>>
    /\ UNCHANGED <<serverVars, textVars, handlerVars>>

\* toggle_recording, lines 36-39: recording, so is_recording = False and
\* save_and_transcribe() is entered
ToggleStopFlag ==
    /\ tpc = "idle"
    /\ is_recording
    /\ is_recording' = FlagOnStopEntry(is_recording)
    /\ tpc' = "save"
    /\ UNCHANGED <<recording_data, listId, cb, audio, temp_path, sent, clipboard,
                   pasted, lastStop, session, delivered>>
    /\ UNCHANGED <<serverVars, textVars, handlerVars>>

\* save_and_transcribe, lines 44-45
SaveCheckEmpty ==
    /\ tpc = "save"
    /\ IF StopIsNoop(recording_data)
       THEN /\ tpc' = "idle"
            /\ lastStop' = "noop"
       ELSE /\ tpc' = "encode"
            /\ UNCHANGED lastStop
    /\ UNCHANGED <<is_recording, recording_data, listId, cb, audio, temp_path, sent,
                   clipboard, pasted, session, delivered>>
    /\ UNCHANGED <<serverVars, textVars, handlerVars>>

\* save_and_transcribe, lines 48-53: concatenate the frames, create the
\* temporary file and write the WAV data.  A failure of wav.write is raised
\* outside the try of line 56: the file stays and the handler is left by the
\* exception.
SaveEncode(ok) ==
    /\ tpc = "encode"
    /\ audio' = recording_data
    /\ temp_path' = "exists"
    /\ IF ok
       THEN /\ tpc' = "post"
            /\ UNCHANGED lastStop
       ELSE /\ tpc' = "idle"
            /\ lastStop' = "encode_fail"
    /\ UNCHANGED <<is_recording, recording_data, listId, cb, sent, clipboard, pasted,
                   session, delivered>>
    /\ UNCHANGED <<serverVars, textVars, handlerVars>>

\* save_and_transcribe, lines 56-68 and, on an exception, 81-84: one POST
\* of the file written at samplerate (line 52); any failure is printed and
\* the file is unlinked
SavePost(resp) ==
    /\ tpc = "post"
    /\ sent' = Append(sent, [audio |-> audio, rate |-> samplerate, resp |-> resp])
    /\ IF ResponseHasText(resp)
       THEN /\ tpc' = "inject"
            /\ UNCHANGED <<temp_path, lastStop>>
       ELSE /\ tpc' = "idle"
            /\ temp_path' = "none"
            /\ lastStop' = resp
    /\ UNCHANGED <<is_recording, recording_data, listId, cb, audio, clipboard, pasted,
                   session, delivered>>
    /\ UNCHANGED <<serverVars, textVars, handlerVars>>

\* save_and_transcribe, lines 71-84 with USE_CLIPBOARD = True (line 15):
\* save the clipboard, copy the text, press ctrl+v, restore the clipboard;
\* an exception skips the remaining steps; the file is unlinked
SaveInject(how) ==
    /\ tpc = "inject"
    /\ clipboard' = IF how = "key_fail" THEN "text" ELSE "prior"
    /\ pasted' = IF how = "ok" THEN pasted + 1 ELSE pasted
    /\ temp_path' = "none"
    /\ lastStop' = how
    /\ tpc' = "idle"
    /\ UNCHANGED <<is_recording, recording_data, listId, cb, audio, sent, session,
                   delivered>>
    /\ UNCHANGED <<serverVars, textVars, handlerVars>>

InitClient == ClientStart /\ ServerStart /\ TextStart /\ HandlerStart

NextClient ==
    \/ CbDeliver
    \/ CbCheck
    \/ CbLoad
    \/ CbAppend
    \/ ToggleStartClear
    \/ ToggleStartFlag
    \/ ToggleStopFlag
    \/ SaveCheckEmpty
    \/ \E ok \in BOOLEAN : SaveEncode(ok)
    \/ \E resp \in PostOutcomes : SavePost(resp)
    \/ \E how \in InjectOutcomes : SaveInject(how)

\* the client: the capture callback interleaved with the hotkey thread
SpecClient == InitClient /\ [][NextClient]_vars

\* ----------------------------------------------------------------- claims

\* request r leaves the entry part of transcribe_audio in this step
Enters(r) == reqs[r].pc = "new" /\ reqs'[r].pc # "new"

\* C1 (as claimed): every request whose upload has no content type, or one
\* that does not start with "audio/", is answered with status 400.
C1_RejectedWith400 ==
    \A r \in Requests :
        (reqs[r].pc = "done" /\ ~ValidContentType(reqs[r].ctype))
            => reqs[r].status = 400

\* C2: a request rejected for its content type is answered with an error
\* in the step it enters, calls no model load, creates no temporary file
\* and leaves the loaded handle and the current model name as they were.
C2_RejectionHasNoEffect ==
    [][ \A r \in Requests :
          (Enters(r) /\ ~ValidContentType(reqs'[r].ctype)) =>
              /\ reqs'[r].pc = "done"
              /\ reqs'[r].status \in {400, 500}
              /\ loadCalls' = loadCalls
              /\ reqs'[r].loads = 0
              /\ whisper_model' = whisper_model
              /\ current_model_name' = current_model_name
              /\ tempFiles' = tempFiles
              /\ r \notin tempCreated' ]_vars

\* a request was rejected for its content type while the cache did not hold
\* the model it asked for
C2_Witness ==
    \E r \in Requests :
        /\ reqs[r].pc = "done"
        /\ ~ValidContentType(reqs[r].ctype)
        /\ reqs[r].ctype # <<>>
        /\ (whisper_model = NoHandle \/ current_model_name # reqs[r].model)

\* C3 (as claimed): a resolution that follows a resolution of the same name
\* performs no load, and the two together call the load at most once.
C3_SecondResolutionNeverLoads ==
    [][ \A r \in Requests :
          (Enters(r) /\ ValidContentType(reqs'[r].ctype)
                     /\ lastRes.name = reqs'[r].model) =>
              /\ loadCalls' = loadCalls
              /\ lastRes.loads + (loadCalls' - loadCalls) <= 1 ]_vars

\* C3 (amended): a resolution that follows a successful resolution of the
\* same name is a cache hit: it performs no load, and the two together call
\* the load at most once.
C3_SecondResolutionIsHitAfterSuccess ==
    [][ \A r \in Requests :
          (Enters(r) /\ ValidContentType(reqs'[r].ctype)
                     /\ lastRes.name = reqs'[r].model /\ lastRes.ok) =>
              /\ loadCalls' = loadCalls
              /\ reqs'[r].loads = 0
              /\ reqs'[r].exit # "load"
              /\ lastRes.loads + (loadCalls' - loadCalls) <= 1 ]_vars

\* two requests named the same model; one loaded it, the other found it
C3_Witness ==
    \E r1, r2 \in Requests :
        /\ r1 # r2
        /\ reqs[r1].pc # "new" /\ reqs[r2].pc # "new"
        /\ reqs[r1].model = reqs[r2].model
        /\ reqs[r1].loads = 1 /\ reqs[r1].exit # "load"
        /\ ValidContentType(reqs[r2].ctype) /\ reqs[r2].loads = 0
        /\ lastRes = [name |-> reqs[r2].model, ok |-> TRUE, loads |-> 0]

\* C4 (as claimed): once a request has returned, no temporary file it
\* created exists on disk.
C4_NoTempFileAfterReturn ==
    \A r \in Requests : reqs[r].pc = "done" => r \notin tempFiles

\* C5: a request whose model load fails is answered with status 500 and
\* leaves the loaded handle and the current model name as they were.
C5_LoadFailureKeepsCache ==
    [][ \A r \in Requests :
          (Enters(r) /\ reqs'[r].exit = "load") =>
              /\ reqs'[r].pc = "done"
              /\ reqs'[r].status = 500
              /\ reqs'[r].loads = 1
              /\ whisper_model' = whisper_model
              /\ current_model_name' = current_model_name ]_vars

\* a load failed for a request while another model stayed loaded
C5_Witness ==
    \E r \in Requests :
        /\ reqs[r].pc = "done"
        /\ reqs[r].exit = "load"
        /\ whisper_model # NoHandle
        /\ whisper_model.loadedFor = current_model_name
        /\ current_model_name # reqs[r].model

\* C6: in every state the handle held is the one loaded for the current
\* model name, and every request that resolved its model, by a hit or by a
\* load, got a handle loaded for the name it asked for.
C6_NameMatchesHandle ==
    /\ \A m \in ModelNames :
          current_model_name = m => whisper_model = Handle(m)
    /\ \A r \in Requests :
          reqs[r].pc = "reading" => reqs[r].resolved = Handle(reqs[r].model)

\* two requests for different models are both suspended at their await
C6_Witness ==
    \E r1, r2 \in Requests :
        /\ reqs[r1].pc = "reading" /\ reqs[r2].pc = "reading"
        /\ reqs[r1].model # reqs[r2].model
        /\ reqs[r1].loads = 1 /\ reqs[r2].loads = 1

AllWhitespace(s) == \A k \in 1..Len(s) : s[k] \in Whitespace

\* C7: the text returned is the raw transcript without its leading and
\* trailing whitespace, its first character upper-cased and the others
\* unchanged; the empty string when nothing is left after trimming.
C7_TrimThenCapitalizeFirst ==
    cooked[1] =>
        \E i, j \in 0..Len(raw) :
            /\ i + j <= Len(raw)
            /\ AllWhitespace(SubSeq(raw, 1, i))
            /\ AllWhitespace(SubSeq(raw, Len(raw) - j + 1, Len(raw)))
            /\ LET core == SubSeq(raw, i + 1, Len(raw) - j)
               IN  IF core = <<>> THEN cooked[2] = <<>>
                   ELSE /\ core[1] \notin Whitespace
                        /\ core[Len(core)] \notin Whitespace
                        /\ cooked[2] = UpperChar(core[1]) \o SubSeq(core, 2, Len(core))

\* "<space>aB" was post-processed to "AB"
C7_Witness ==
    /\ cooked[1]
    /\ raw = <<" ", "a", "B">>
    /\ cooked[2] = <<"A", "B">>

\* C8: a stop that finds the buffer empty returns at once: no request is
\* sent, no temporary file is created, nothing is injected, the clipboard
\* is not touched and the controller is Idle.
C8_EmptyStopIsNoop ==
    [][ (tpc = "save" /\ recording_data = <<>> /\ tpc' # tpc) =>
            /\ tpc' = "idle"
            /\ ~is_recording'
            /\ sent' = sent
            /\ temp_path' = temp_path
            /\ pasted' = pasted
            /\ clipboard' = clipboard ]_vars

\* a recording was started and stopped with no frame in the buffer
C8_Witness ==
    /\ tpc = "idle"
    /\ lastStop = "noop"
    /\ ~is_recording
    /\ session >= 1
    /\ sent = <<>>
    /\ temp_path = "none"

\* C9 (as claimed): a frame is appended only while the state is Recording,
\* and every payload uploaded holds only frames delivered while Recording
\* in the session that is being stopped.
C9_AppendOnlyWhileRecording ==
    [][ /\ Len(recording_data') > Len(recording_data) => is_recording
        /\ sent' # sent =>
              \A k \in 1..Len(audio) :
                  audio[k].rec /\ audio[k].sess = session ]_vars

C11_OneRequestAndInjectOnlyOnText ==
    [][ /\ sent' # sent =>
              (tpc = "post" /\ tpc' # "post" /\ Len(sent') = Len(sent) + 1)
        /\ Len(sent') <= session'
        /\ (is_recording' \/ tpc' \in {"start_flag", "save", "encode", "post"}) =>
              Len(sent') < session'
        /\ (pasted' # pasted \/ clipboard' # clipboard) =>
              (tpc = "inject" /\ sent # <<>> /\ sent[Len(sent)].resp = "ok")
        /\ (tpc = "post" /\ tpc' # tpc /\ sent'[Len(sent')].resp # "ok") =>
              (tpc' = "idle" /\ pasted' = pasted /\ clipboard' = clipboard) ]_vars

\* a stop sequence got a non-2xx response: one request, nothing injected
C11_Witness ==
    /\ tpc = "idle"
    /\ lastStop = "status"
    /\ Len(sent) = 1
    /\ sent[1].resp = "status"
    /\ pasted = 0
    /\ clipboard = "prior"

\* C13 (as claimed): the payload sent on stop is, in order and without
\* loss or repetition, exactly the frames appended to the buffer while the
\* state was Recording, at 16000 Hz.
C13_PayloadIsFramesAppendedWhileRecording ==
    [][ sent' # sent =>
          LET p == sent'[Len(sent')]
          IN  /\ p.rate = 16000
              /\ p.audio = SelectSeq(recording_data, LAMBDA f : f.app)
              /\ \A i, j \in 1..Len(p.audio) : i < j => p.audio[i].n < p.audio[j].n ]_vars

\* C14 (as claimed): when the stop sequence has returned, the temporary WAV
\* file it created no longer exists.
C14_NoClientTempFileAfterStop ==
    tpc = "idle" => temp_path = "none"

\* C15 (as claimed): whenever the controller is Idle after a stop sequence
\* that uploaded its audio, whatever the outcome, the audio buffer is empty.
C15_BufferEmptyWhenIdleAfterStop ==
    (tpc = "idle" /\ ~is_recording
        /\ lastStop \in {"ok", "network", "status", "json", "notext",
                         "paste_fail", "key_fail"}) => recording_data = <<>>

\* C19 (as claimed): when the stop sequence has returned, the clipboard
\* holds its prior contents.
C19_ClipboardRestoredAfterStop ==
    tpc = "idle" => clipboard = "prior"

\* C16 (as claimed): every request that reaches the backend transcribes
\* with the handle of the model it asked for.
C16_TranscribesWithRequestedModel ==
    \A r \in Requests :
        (reqs[r].pc = "done" /\ reqs[r].used # NoHandle)
            => reqs[r].used = Handle(reqs[r].model)

\* C17: two requests that name the same model do not both load it, unless
\* a request for another model replaced the cache entry in between; so two
\* concurrent requests for a model that is not loaded call the load once.
C17_SameModelLoadedOnce ==
    \A r1, r2 \in Requests :
        (/\ r1 # r2
         /\ reqs[r1].model = reqs[r2].model
         /\ reqs[r1].loads = 1 /\ reqs[r1].exit # "load"
         /\ reqs[r2].loads = 1 /\ reqs[r2].exit # "load")
        => \E r3 \in Requests :
              /\ reqs[r3].model # reqs[r1].model
              /\ reqs[r3].loads = 1 /\ reqs[r3].exit # "load"

\* two requests for the same model are suspended at their await together:
\* the first loaded the model, the second found it loaded
C17_Witness ==
    \E r1, r2 \in Requests :
        /\ r1 # r2
        /\ reqs[r1].pc = "reading" /\ reqs[r2].pc = "reading"
        /\ reqs[r1].model = reqs[r2].model
        /\ reqs[r1].loads = 1 /\ reqs[r2].loads = 0
        /\ loadCalls = 1

\* C20: a handle is held exactly when a model name is recorded, the name is
\* the one the handle was loaded with, and GET / reports model_loaded
\* exactly when its current_model is not "none".
C20_HandleIffName ==
    /\ whisper_model # NoHandle <=> current_model_name # NoneName
    /\ whisper_model # NoHandle => whisper_model = Handle(current_model_name)
    /\ LET resp == Root(whisper_model, current_model_name)
       IN  /\ resp.model_loaded <=> resp.current_model # "none"
           /\ resp.model_loaded <=> whisper_model # NoHandle

\* a model is held after one request's load failed and another's succeeded
C20_Witness ==
    \E r1, r2 \in Requests :
        /\ reqs[r1].exit = "load"
        /\ reqs[r2].loads = 1 /\ reqs[r2].exit # "load" /\ reqs[r2].pc = "done"
        /\ whisper_model # NoHandle
        /\ Root(whisper_model, current_model_name).model_loaded

\* C12: from the same cache state and inputs the compatible endpoint
\* answers with the status of /transcribe, leaves the same cache and the
\* same temporary-file effects, calls the backend with the same options, and
\* on success returns exactly the text and language of /transcribe, without
\* the segments.
C12_CompatibleEndpointIsAdapter ==
    outcome.done =>
        LET t == outcome.t
            o == outcome.o
        IN  /\ o.status = t.status
            /\ o.wm = t.wm /\ o.cmn = t.cmn /\ o.loads = t.loads
            /\ o.tempMade = t.tempMade /\ o.tempLeft = t.tempLeft
            /\ o.called = t.called /\ o.opts = t.opts
            /\ t.status = 200 =>
                  o.body = [text |-> t.body.text, language |-> t.body.language]
            /\ t.status # 200 => o.body = t.body

\* a request that loaded its model and was transcribed went through both
\* endpoints
C12_Witness ==
    /\ outcome.done
    /\ outcome.t.status = 200
    /\ outcome.t.loads = 1
    /\ outcome.t.body.text = <<"A", "B">>
    /\ outcome.o.body.text = <<"A", "B">>

\* C18: the backend gets a language option only for a language that is
\* not "auto", and then that very code; every explicit code is passed; it
\* gets the prompt only if the prompt is not empty, and then that prompt.
C18_HintOnlyIfNotAuto ==
    (outcome.done /\ outcome.t.called) =>
        LET opts == outcome.t.opts
        IN  /\ \A p \in opts : p[1] \in {"language", "initial_prompt"}
            /\ \A p \in opts : p[1] = "language" =>
                  (call.language # "auto" /\ p[2] = call.language)
            /\ call.language \in {"en", "ru"} => <<"language", call.language>> \in opts
            /\ \A p \in opts : p[1] = "initial_prompt" =>
                  (call.prompt # "" /\ p[2] = call.prompt)

\* the backend was called for a request with language "auto" and a prompt
C18_Witness ==
    /\ outcome.done
    /\ outcome.t.called
    /\ call.language = "auto"
    /\ call.prompt # ""
    /\ outcome.t.opts = {<<"initial_prompt", call.prompt>>}

====
